---- MODULE Spec2Model ----
(***************************************************************************)
(* A model of the tool-invocation gateway of agentic-ai-training:          *)
(*   - the SQLite tool server, local_mcp/fastmcp_server.py: the process    *)
(*     (import of the module, registration of the five tools, __main__)    *)
(*     and the five tool handlers over one database file, specification    *)
(*     Spec;                                                               *)
(*   - the multi-server client, day4/mcp/mcp_client.py (main: discover,    *)
(*     create agent, two invocations, each awaited under a timeout),       *)
(*     specifications ClientSpec and ClientLive, and RemoteSpec, which     *)
(*     adds the servers the invocations reach;                             *)
(*   - two parts of the design whose code is the frameworks': the tool     *)
(*     registry (RegistrySpec) and the merge of the servers' catalogs      *)
(*     (CatalogSpec), modelled from the specification.                     *)
(* The two programs do not talk to each other in the repository (the       *)
(* client is configured for a math and a weather server), so each          *)
(* specification moves its own variables and leaves the others alone.      *)
(***************************************************************************)
EXTENDS Integers, Sequences, FiniteSets, TLC

VARIABLES
  store,       \* the committed contents of the database file: table -> rows
  call,        \* the server's call slots
  lastInsert,  \* history: the latest committed insert, while no later commit
               \* has touched the store
  cli,         \* the client's main()
  srv,         \* the server process: its phase, tool registry and exit status
  agg          \* the client's view of the servers' catalogs, merged

vars == <<store, call, lastInsert, cli, srv, agg>>

(***************************************************************************)
(* Bounds of the model.                                                    *)
(***************************************************************************)
\* Largest rowid the store hands out; an insert beyond it is not taken.
MaxId == 2

(***************************************************************************)
(* Input domains.                                                          *)
(***************************************************************************)
\* The concurrent call slots of the server (handlers may run concurrently
\* when the transport pipelines requests).
Calls == {"c1", "c2"}

\* Tables the database file may hold.  Their schema is
\* (id INTEGER PRIMARY KEY, name): the store assigns id on insert.
SchemaTables == {"items"}
\* Table names a request may carry; "ghost" is never a table of the store.
TableNames == SchemaTables \cup {"ghost"}

Values == {"x", "y"}
\* A Python int that does not fit SQLite's 64-bit INTEGER (2**70).
HugeInt == "2**70"
DataValues == Values \cup {HugeInt}
EmptyData == [k \in {} |-> "x"]
\* The data mappings tried: empty, a good row, a value SQLite cannot bind, and
\* a column the table does not have.
DataMaps ==
  {EmptyData} \cup {[k \in {"name"} |-> v] : v \in DataValues}
              \cup {[k \in {"bogus"} |-> "x"]}

\* The columns argument of query_db_table.
ColumnArgs == {"*", "name", "bogus"}
SelectableColumns == {"*", "name"}

\* A condition argument is a string, modelled as a sequence of tokens:
\* "ws" is white space, "name=x" a well-formed predicate, "??" text that is
\* no SQL expression.
Tokens == {"ws", "name=x", "??"}
Conditions ==
  {<<>>, <<"ws">>, <<"ws", "ws">>, <<"ws", "name=x", "ws">>, <<"??">>}

Rows == [id : 1..MaxId, name : Values]

(***************************************************************************)
(* Pure helpers.                                                           *)
(***************************************************************************)
Max(S) == CHOOSE m \in S : \A n \in S : n <= m

\* str.strip(): drop leading and trailing white space.
RECURSIVE LStrip(_)
LStrip(s) == IF s /= <<>> /\ Head(s) = "ws" THEN LStrip(Tail(s)) ELSE s

RECURSIVE RStrip(_)
RStrip(s) ==
  IF s /= <<>> /\ s[Len(s)] = "ws" THEN RStrip(SubSeq(s, 1, Len(s) - 1)) ELSE s

Strip(s) == RStrip(LStrip(s))

\* Python truthiness of a str: non-empty.
Truthy(s) == s /= <<>>

\* The guard without its strip(): only the empty string counts as blank.
BlankConditionNoStrip(cond) == ~Truthy(cond)

\* delete_data's guard: not condition or not condition.strip()
BlankCondition(cond) == ~Truthy(cond) \/ ~Truthy(Strip(cond))

\* The text after WHERE as the SQL parser sees it: white space is skipped.
SqlTokens(cond) == SelectSeq(cond, LAMBDA t : t /= "ws")

\* A WHERE clause parses iff it is exactly one well-formed predicate.
WhereParses(cond) == SqlTokens(cond) = <<"name=x">>

\* Does a row satisfy a WHERE clause that parses.
Matches(cond, row) == SqlTokens(cond) = <<"name=x">> /\ row.name = "x"

\* The rows of a set in rowid order (what SELECT without ORDER BY yields).
RECURSIVE InIdOrder(_)
InIdOrder(rows) ==
  IF rows = {} THEN <<>>
  ELSE LET r == CHOOSE x \in rows : \A y \in rows : x.id <= y.id
       IN <<r>> \o InIdOrder(rows \ {r})

\* The names of a set of tables as a sequence.
RECURSIVE NamesInOrder(_)
NamesInOrder(S) ==
  IF S = {} THEN <<>>
  ELSE LET t == CHOOSE x \in S : TRUE IN <<t>> \o NamesInOrder(S \ {t})

\* A store that hands out the same rowid again and again.
NextRowIdStuck(rows) == 1

\* lastrowid of an insert into a rowid table: one more than the largest id.
NextRowId(rows) == IF rows = {} THEN 1 ELSE Max({r.id : r \in rows}) + 1

(***************************************************************************)
(* The tool server: fastmcp_server.py.                                     *)
(***************************************************************************)
Tools ==
  {"list_db_tables", "get_table_schema", "query_db_table", "insert_data",
   "delete_data"}

MutatingTools == {"insert_data", "delete_data"}

\* list_db_tables declared without its dummy_param.
ToolParamsNoDummy(tool) ==
  CASE tool = "list_db_tables" -> {}
    [] tool = "get_table_schema" -> {"table_name"}
    [] tool = "query_db_table" -> {"table_name", "columns", "condition"}
    [] tool = "insert_data" -> {"table_name", "data"}
    [] tool = "delete_data" -> {"table_name", "condition"}

\* The parameters each handler declares.  None has a default value, so each
\* is required: a request that omits one cannot enter the handler's body.
ToolParams(tool) ==
  CASE tool = "list_db_tables" -> {"dummy_param"}
    [] tool = "get_table_schema" -> {"table_name"}
    [] tool = "query_db_table" -> {"table_name", "columns", "condition"}
    [] tool = "insert_data" -> {"table_name", "data"}
    [] tool = "delete_data" -> {"table_name", "condition"}

\* A schema check that is content with any one parameter.
SchemaSatisfiedLax(tool, present) == present /= {}

\* Does a request carrying the parameters in present satisfy the tool's schema.
SchemaSatisfied(tool, present) == ToolParams(tool) \subseteq present

\* What a handler hands back: a Python dict (a record), a Python list (a
\* sequence) or nothing.  The {e} detail of the error messages is left out.
NoResult == [shape |-> "none", val |-> <<>>]
Dict(d) == [shape |-> "dict", val |-> d]
List(l) == [shape |-> "list", val |-> l]
Failure(msg) == Dict([success |-> FALSE, message |-> msg])

MsgNoData == "No data provided for insertion."
MsgEmptyCondition == "Deletion condition cannot be empty. This is a safety measure."
MsgMissingArgument == "Missing required argument"
MsgUnknownTool == "Unknown tool"
MsgMalformed == "Malformed request"
MsgListError == "Error listing tables"
MsgNotFound == "Table not found or no schema information."
MsgSchemaError == "Error getting schema"
MsgQueryError == "Error querying table"
MsgInsertError == "Error inserting data into table"
MsgDeleteError == "Error deleting data from table"

\* A call slot.  conn is the handler's local variable conn: the connection the
\* call holds (0: none), gone when the handler returns or raises; connections
\* are told apart by a number.  ev is the sequence of store-API events of the
\* call so far:
\* "connect", "execute", "execute_failed", "commit", "commit_failed",
\* "rollback", "close".  invoked says whether the handler's body was entered.
\* present is the set of parameters the request carried; after is the value
\* of lastInsert a query's statement ran under.
NoInsert == [valid |-> FALSE, table |-> "", rowid |-> 0, name |-> "", before |-> {}]

IdleCall ==
  [pc |-> "idle", tool |-> "", present |-> {}, table |-> "", columns |-> "",
   cond |-> <<>>, data |-> EmptyData, invoked |-> FALSE, ev |-> <<>>,
   pending |-> {}, rowid |-> 0, result |-> NoResult, exc |-> "",
   after |-> NoInsert, conn |-> 0]

\* A call has ended when the request was refused, or the handler returned a
\* value or raised.  A slot takes its next request once the response to the
\* ended call is sent.
EndedPcs == {"rejected", "returned", "raised"}
Ended(c) == call[c].pc \in EndedPcs
\* A slot that takes a new request although the response to its ended call
\* has not been sent.
FreeWhileResponding(c) ==
  srv.phase = "serving" /\ call[c].pc \in {"idle"} \cup EndedPcs

Free(c) == srv.phase = "serving" /\ call[c].pc = "idle"

HasIn(ev, e) == \E i \in 1..Len(ev) : ev[i] = e
Has(c, e) == HasIn(call[c].ev, e)
ConnOpen(c) == Has(c, "connect") /\ ~Has(c, "close")

\* The connections the handler calls in flight hold.
ConnsHeld == {call[d].conn : d \in Calls} \ {0}

\* A get_db_connection that hands out one connection kept by the module.
get_db_connection_shared(held) == 1

\* get_db_connection(): sqlite3.connect(DATABASE_PATH) makes a new connection
\* object on every call; it gets the smallest number no held connection has.
get_db_connection(held) ==
  CHOOSE n \in 1..(Cardinality(held) + 1) :
    n \notin held /\ \A m \in 1..(n - 1) : m \in held

\* sqlite3.connect and the statements may fail at any time with sqlite3.Error
\* (file unreadable, not a database, locked, disk I/O).
StoreOutcomes == {"ok", "sqlerr"}

\* SQLite admits one writer: a statement that writes fails (database is
\* locked) while another connection holds an uncommitted write.
WriterActive(c) == \E d \in Calls \ {c} : call[d].pc = "executed"

(***************************************************************************)
(* The server process: the module's import, its tool registry, __main__.   *)
(***************************************************************************)
\* The functions the module decorates with @mcp_server.tool, in source order.
Decorated ==
  <<"list_db_tables", "get_table_schema", "query_db_table", "insert_data",
    "delete_data">>

\* A tool descriptor: the name of the tool and the function that handles it.
Descriptor(name, handler) == [name |-> name, handler |-> handler]
NoDescriptor == Descriptor("", "")

\* The descriptors a registry may be offered: every tool name, bound to the
\* function of that name or to another function.
Descriptors == UNION {{Descriptor(n, h) : h \in {n, "stub"}} : n \in Tools}

RegistryNames(reg) == {reg[i].name : i \in 1..Len(reg)}

\* A register that replaces the descriptor of a name already registered.
RegisterOverwrites(reg, d) ==
  [ok |-> TRUE,
   registry |-> IF d.name \in RegistryNames(reg)
                THEN [i \in 1..Len(reg) |-> IF reg[i].name = d.name THEN d ELSE reg[i]]
                ELSE Append(reg, d)]

\* Modelled from the specification (4.2 Tool Registry; the registry is the
\* framework's, its code is not in the sources): register(descriptor) fails
\* with DuplicateNameError if a tool of that name already exists, and
\* otherwise adds the descriptor after those registered before it.
Register(reg, d) ==
  IF d.name \in RegistryNames(reg)
  THEN [ok |-> FALSE, registry |-> reg]
  ELSE [ok |-> TRUE, registry |-> Append(reg, d)]

\* Modelled from the specification (4.2 Tool Registry): resolve(name) returns
\* the descriptor registered under the name and fails with NotFoundError if
\* there is none.
Resolve(reg, name) ==
  IF name \in RegistryNames(reg)
  THEN [found |-> TRUE,
        descriptor |-> reg[CHOOSE i \in 1..Len(reg) : reg[i].name = name]]
  ELSE [found |-> FALSE, descriptor |-> NoDescriptor]

Registered(name) == Resolve(srv.registry, name).found

\* The latest operation on the registry and how it went.
NoOp == [op |-> "", name |-> "", ok |-> TRUE, descriptor |-> NoDescriptor]

\* The process when the interpreter starts on the module.  phase is
\* "import" while the module's top-level statements run, "serving" inside
\* mcp_server.run and "exited" once the process has ended; ended says what
\* ended it and status is the exit status, read once the process has exited.
ServerStart ==
  [phase |-> "import", registry |-> <<>>, ended |-> "", status |-> 0,
   last |-> NoOp]

\* The process ends: how says why, status is what the parent sees.
Exited(how, status) ==
  [srv EXCEPT !.phase = "exited", !.ended = how, !.status = status]

(***************************************************************************)
(* The aggregated catalog of the client's servers.                         *)
(***************************************************************************)
\* catalog is the environment: the tool names each server offers.
AggregatorStart(cat) ==
  [catalog |-> cat, fetched |-> FALSE, merged |-> {},
   lookup |-> [name |-> <<>>, outcome |-> "", server |-> ""]]

(***************************************************************************)
(* The client: mcp_client.py, main().                                      *)
(***************************************************************************)
\* The servers the client is configured with.
Servers == {"math", "weather"}

\* The awaits main() makes under asyncio.wait_for, and their timeouts in
\* seconds.
Waits == {"discover", "math", "weather"}
\* The two of them that await agent.ainvoke(...).
Invocations == {"math", "weather"}
DiscoverTimeout == 10
InvokeTimeout == 20
TimeoutOf(w) == IF w = "discover" THEN DiscoverTimeout ELSE InvokeTimeout

\* main() before its first statement.  reach is the environment: the servers
\* that can be reached.  load is the state of the per-server tool loading
\* that get_tools() gathers; op is the awaited operation, timer the timeout
\* of the current wait_for and elapsed the seconds it has run.  out, n and at
\* record per wait the outcome main() saw, how many outcomes it saw and what
\* the operation and the timer were when it resumed; started counts the
\* starts of each awaited operation and left is the state the operation was
\* left in when main() resumed.  remote is the mutating tool call the
\* operation had a server start: "none", "started" or "committed".
ClientStart(reach) ==
  [pc |-> "start", reach |-> reach,
   load |-> [s \in Servers |-> "idle"],
   elapsed |-> 0, timer |-> "off", op |-> "none", tools |-> {},
   agent |-> FALSE,
   out |-> [w \in Waits |-> "pending"],
   n |-> [w \in Waits |-> 0],
   at |-> [w \in Waits |-> [op |-> "none", timer |-> "off", elapsed |-> 0,
                            remote |-> "none"]],
   started |-> [w \in Waits |-> 0],
   left |-> [w \in Waits |-> "none"],
   remote |-> [w \in Waits |-> "none"]]

Init ==
  /\ store \in {[t \in T |-> {}] : T \in SUBSET SchemaTables}
  /\ call = [c \in Calls |-> IdleCall]
  /\ lastInsert = NoInsert
  /\ cli = ClientStart(Servers)
  /\ srv = ServerStart
  /\ agg = AggregatorStart([s \in Servers |-> {}])

\* The tool names a request may carry; "no_such_tool" is never registered.
RequestNames == Tools \cup {"no_such_tool"}

\* A request that is no well-formed call, or that names a tool the registry
\* does not hold, resolves to no handler: none is entered.
Refuse(c) ==
  /\ Free(c)
  /\ \/ call' = [call EXCEPT ![c] =
            [IdleCall EXCEPT !.pc = "rejected", !.result = Failure(MsgMalformed)]]
     \/ \E name \in RequestNames :
          /\ ~Registered(name)
          /\ call' = [call EXCEPT ![c] =
               [IdleCall EXCEPT !.pc = "rejected",
                                !.result = Failure(MsgUnknownTool)]]
  /\ UNCHANGED <<store, lastInsert, cli, srv, agg>>

\* A request that omits a required parameter never reaches the handler.
Reject(c) ==
  /\ Free(c)
  /\ \E tool \in Tools :
       \E present \in SUBSET ToolParams(tool) :
         /\ Registered(tool)
         /\ ~SchemaSatisfied(tool, present)
         /\ call' = [call EXCEPT ![c] =
              [IdleCall EXCEPT !.pc = "rejected", !.tool = tool,
                               !.present = present,
                               !.result = Failure(MsgMissingArgument)]]
  /\ UNCHANGED <<store, lastInsert, cli, srv, agg>>

(***************************************************************************)
(* list_db_tables: connect and execute inside one try; close only on the   *)
(* success path.                                                           *)
(***************************************************************************)
\* The handler's body is entered with the parameters the request carried.
Entered(tool, present) ==
  [IdleCall EXCEPT !.tool = tool, !.present = present, !.invoked = TRUE]

\* The requests that reach the handler of a tool: the tool is registered and
\* the request satisfies its schema.
Accepted(tool) ==
  {present \in SUBSET ToolParams(tool) :
     Registered(tool) /\ SchemaSatisfied(tool, present)}

list_db_tables_begin(c) ==
  /\ Free(c)
  /\ \E present \in Accepted("list_db_tables"), o \in StoreOutcomes :
       call' = [call EXCEPT ![c] =
         IF o = "ok"
         THEN [Entered("list_db_tables", present) EXCEPT !.pc = "connected",
                                                !.ev = <<"connect">>,
                 !.conn = get_db_connection(ConnsHeld)]
         ELSE [Entered("list_db_tables", present) EXCEPT !.pc = "returned",
                 !.result = Dict([success |-> FALSE, message |-> MsgListError,
                                  tables |-> <<>>])]]
  /\ UNCHANGED <<store, lastInsert, cli, srv, agg>>

list_db_tables_execute(c) ==
  /\ call[c].pc = "connected"
  /\ call[c].tool = "list_db_tables"
  /\ \E o \in StoreOutcomes :
       call' = [call EXCEPT ![c] =
         IF o = "ok"
         THEN [@ EXCEPT !.pc = "returned", !.conn = 0,
                 !.ev = @ \o <<"execute", "close">>,
                 !.result = Dict([success |-> TRUE,
                                  message |-> "Tables listed successfully.",
                                  tables |-> NamesInOrder(DOMAIN store)])]
         ELSE [@ EXCEPT !.pc = "returned", !.conn = 0,
                 !.ev = @ \o <<"execute_failed">>,
                 !.result = Dict([success |-> FALSE, message |-> MsgListError,
                                  tables |-> <<>>])]]
  /\ UNCHANGED <<store, lastInsert, cli, srv, agg>>

(***************************************************************************)
(* get_table_schema: as list_db_tables; an unknown table yields no schema  *)
(* rows, and the ValueError raised for it (after the close) is caught.     *)
(***************************************************************************)
SchemaColumns ==
  <<[name |-> "id", type |-> "INTEGER"], [name |-> "name", type |-> "TEXT"]>>

get_table_schema_begin(c) ==
  /\ Free(c)
  /\ \E present \in Accepted("get_table_schema"), t \in TableNames,
        o \in StoreOutcomes :
       call' = [call EXCEPT ![c] =
         IF o = "ok"
         THEN [Entered("get_table_schema", present) EXCEPT !.pc = "connected",
                 !.table = t, !.ev = <<"connect">>,
                 !.conn = get_db_connection(ConnsHeld)]
         ELSE [Entered("get_table_schema", present) EXCEPT !.pc = "returned",
                 !.table = t, !.result = Failure(MsgSchemaError)]]
  /\ UNCHANGED <<store, lastInsert, cli, srv, agg>>

get_table_schema_execute(c) ==
  /\ call[c].pc = "connected"
  /\ call[c].tool = "get_table_schema"
  /\ \E o \in StoreOutcomes :
       call' = [call EXCEPT ![c] =
         IF o = "ok"
         THEN [@ EXCEPT !.pc = "returned", !.conn = 0,
                 !.ev = @ \o <<"execute", "close">>,
                 !.result =
                   IF call[c].table \in DOMAIN store
                   THEN Dict([table_name |-> call[c].table,
                              columns |-> SchemaColumns])
                   ELSE Failure(MsgNotFound)]
         ELSE [@ EXCEPT !.pc = "returned", !.conn = 0,
                 !.ev = @ \o <<"execute_failed">>,
                 !.result = Failure(MsgSchemaError)]]
  /\ UNCHANGED <<store, lastInsert, cli, srv, agg>>

(***************************************************************************)
(* query_db_table: the connection is opened before the try, the close is   *)
(* in a finally.                                                           *)
(***************************************************************************)
\* SELECT {columns} FROM {table_name} [WHERE {condition}]; the WHERE part is
\* appended when the condition string is truthy, blank or not.
QueryValid(t, cols, cond) ==
  /\ t \in DOMAIN store
  /\ cols \in SelectableColumns
  /\ (Truthy(cond) => WhereParses(cond))

Selected(t, cond) ==
  IF Truthy(cond) THEN {r \in store[t] : Matches(cond, r)} ELSE store[t]

\* dict(row) of a result row.
Project(cols, row) == IF cols = "*" THEN row ELSE [name |-> row.name]

QueryRows(t, cols, cond) ==
  LET rs == InIdOrder(Selected(t, cond))
  IN [i \in 1..Len(rs) |-> Project(cols, rs[i])]

QueryFailure == List(<<[success |-> FALSE, message |-> MsgQueryError]>>)

query_db_table_begin(c) ==
  /\ Free(c)
  /\ \E present \in Accepted("query_db_table"), t \in TableNames,
        cols \in ColumnArgs, cond \in Conditions, o \in StoreOutcomes :
       call' = [call EXCEPT ![c] =
         IF o = "ok"
         THEN [Entered("query_db_table", present) EXCEPT !.pc = "connected",
                 !.table = t, !.columns = cols, !.cond = cond,
                 !.ev = <<"connect">>,
                 !.conn = get_db_connection(ConnsHeld)]
         ELSE [Entered("query_db_table", present) EXCEPT !.pc = "raised",
                 !.table = t, !.columns = cols, !.cond = cond,
                 !.exc = "sqlite3.OperationalError"]]
  /\ UNCHANGED <<store, lastInsert, cli, srv, agg>>

query_db_table_execute(c) ==
  /\ call[c].pc = "connected"
  /\ call[c].tool = "query_db_table"
  /\ LET t == call[c].table
         cols == call[c].columns
         cond == call[c].cond
     IN \E o \in StoreOutcomes :
          /\ o = "ok" => QueryValid(t, cols, cond)
          /\ call' = [call EXCEPT ![c] =
               IF o = "ok"
               THEN [@ EXCEPT !.pc = "returned", !.conn = 0,
                       !.ev = @ \o <<"execute", "close">>,
                       !.after = lastInsert,
                       !.result = List(QueryRows(t, cols, cond))]
               ELSE [@ EXCEPT !.pc = "returned", !.conn = 0,
                       !.ev = @ \o <<"execute_failed", "close">>,
                       !.result = QueryFailure]]
  /\ UNCHANGED <<store, lastInsert, cli, srv, agg>>

(***************************************************************************)
(* insert_data: empty data is refused before the store is touched; the     *)
(* connection is opened before the try; only sqlite3.Error is caught.      *)
(***************************************************************************)
\* INSERT INTO {table_name} ({columns}) VALUES (?, ...) prepares iff the table
\* and the columns exist.
InsertPrepares(t, data) == t \in DOMAIN store /\ DOMAIN data \subseteq {"name"}

\* Binding a Python int beyond 64 bits raises OverflowError, which is not a
\* sqlite3.Error.
BindOverflows(data) == \E k \in DOMAIN data : data[k] = HugeInt

insert_data_begin(c) ==
  /\ Free(c)
  /\ \E present \in Accepted("insert_data"), t \in TableNames,
        data \in DataMaps, o \in StoreOutcomes :
       call' = [call EXCEPT ![c] =
         IF DOMAIN data = {}
         THEN [Entered("insert_data", present) EXCEPT !.pc = "returned", !.table = t,
                 !.data = data, !.result = Failure(MsgNoData)]
         ELSE IF o = "ok"
         THEN [Entered("insert_data", present) EXCEPT !.pc = "connected", !.table = t,
                 !.data = data, !.ev = <<"connect">>,
                 !.conn = get_db_connection(ConnsHeld)]
         ELSE [Entered("insert_data", present) EXCEPT !.pc = "raised", !.table = t,
                 !.data = data, !.exc = "sqlite3.OperationalError"]]
  /\ UNCHANGED <<store, lastInsert, cli, srv, agg>>

insert_data_execute(c) ==
  /\ call[c].pc = "connected"
  /\ call[c].tool = "insert_data"
  /\ LET t == call[c].table
         data == call[c].data
     IN \/ \* the statement runs: the new row is written, not yet committed
           /\ InsertPrepares(t, data)
           /\ ~BindOverflows(data)
           /\ ~WriterActive(c)
           /\ NextRowId(store[t]) <= MaxId
           /\ call' = [call EXCEPT ![c] =
                [@ EXCEPT !.pc = "executed", !.ev = @ \o <<"execute">>,
                   !.rowid = NextRowId(store[t]),
                   !.pending = store[t] \cup
                     {[id |-> NextRowId(store[t]), name |-> data["name"]]}]]
        \/ \* binding raises OverflowError: finally closes, nothing catches
           /\ InsertPrepares(t, data)
           /\ BindOverflows(data)
           /\ call' = [call EXCEPT ![c] =
                [@ EXCEPT !.pc = "raised", !.conn = 0, !.exc = "OverflowError",
                   !.ev = @ \o <<"execute_failed", "close">>]]
        \/ \* sqlite3.Error: rollback, failure value, close
           /\ call' = [call EXCEPT ![c] =
                [@ EXCEPT !.pc = "returned", !.conn = 0,
                   !.ev = @ \o <<"execute_failed", "rollback", "close">>,
                   !.result = Failure(MsgInsertError)]]
  /\ UNCHANGED <<store, lastInsert, cli, srv, agg>>

insert_data_commit(c) ==
  /\ call[c].pc = "executed"
  /\ call[c].tool = "insert_data"
  /\ \/ /\ store' = [store EXCEPT ![call[c].table] = call[c].pending]
        /\ lastInsert' = [valid |-> TRUE, table |-> call[c].table,
                          rowid |-> call[c].rowid,
                          name |-> call[c].data["name"],
                          before |-> store[call[c].table]]
        /\ call' = [call EXCEPT ![c] =
             [@ EXCEPT !.pc = "returned", !.conn = 0, !.ev = @ \o <<"commit", "close">>,
                !.result = Dict([success |-> TRUE,
                                 message |-> "Data inserted successfully.",
                                 row_id |-> call[c].rowid])]]
     \/ /\ call' = [call EXCEPT ![c] =
             [@ EXCEPT !.pc = "returned", !.conn = 0,
                !.ev = @ \o <<"commit_failed", "rollback", "close">>,
                !.result = Failure(MsgInsertError)]]
        /\ UNCHANGED <<store, lastInsert>>
  /\ UNCHANGED <<cli, srv, agg>>

(***************************************************************************)
(* delete_data: a blank condition is refused before the store is touched.  *)
(***************************************************************************)
\* DELETE FROM {table_name} WHERE {condition}
DeleteValid(t, cond) == t \in DOMAIN store /\ WhereParses(cond)

delete_data_begin(c) ==
  /\ Free(c)
  /\ \E present \in Accepted("delete_data"), t \in TableNames,
        cond \in Conditions, o \in StoreOutcomes :
       call' = [call EXCEPT ![c] =
         IF BlankCondition(cond)
         THEN [Entered("delete_data", present) EXCEPT !.pc = "returned", !.table = t,
                 !.cond = cond, !.result = Failure(MsgEmptyCondition)]
         ELSE IF o = "ok"
         THEN [Entered("delete_data", present) EXCEPT !.pc = "connected", !.table = t,
                 !.cond = cond, !.ev = <<"connect">>,
                 !.conn = get_db_connection(ConnsHeld)]
         ELSE [Entered("delete_data", present) EXCEPT !.pc = "raised", !.table = t,
                 !.cond = cond, !.exc = "sqlite3.OperationalError"]]
  /\ UNCHANGED <<store, lastInsert, cli, srv, agg>>

delete_data_execute(c) ==
  /\ call[c].pc = "connected"
  /\ call[c].tool = "delete_data"
  /\ LET t == call[c].table
         cond == call[c].cond
     IN \/ /\ DeleteValid(t, cond)
           /\ ~WriterActive(c)
           /\ call' = [call EXCEPT ![c] =
                [@ EXCEPT !.pc = "executed", !.ev = @ \o <<"execute">>,
                   !.rowid = Cardinality({r \in store[t] : Matches(cond, r)}),
                   !.pending = {r \in store[t] : ~Matches(cond, r)}]]
        \/ /\ call' = [call EXCEPT ![c] =
                [@ EXCEPT !.pc = "returned", !.conn = 0,
                   !.ev = @ \o <<"execute_failed", "rollback", "close">>,
                   !.result = Failure(MsgDeleteError)]]
  /\ UNCHANGED <<store, lastInsert, cli, srv, agg>>

delete_data_commit(c) ==
  /\ call[c].pc = "executed"
  /\ call[c].tool = "delete_data"
  /\ \/ /\ store' = [store EXCEPT ![call[c].table] = call[c].pending]
        /\ lastInsert' = NoInsert
        /\ call' = [call EXCEPT ![c] =
             [@ EXCEPT !.pc = "returned", !.conn = 0, !.ev = @ \o <<"commit", "close">>,
                !.result = Dict([success |-> TRUE,
                                 message |-> "row(s) deleted successfully",
                                 rows_deleted |-> call[c].rowid])]]
     \/ /\ call' = [call EXCEPT ![c] =
             [@ EXCEPT !.pc = "returned", !.conn = 0,
                !.ev = @ \o <<"commit_failed", "rollback", "close">>,
                !.result = Failure(MsgDeleteError)]]
        /\ UNCHANGED <<store, lastInsert>>
  /\ UNCHANGED <<cli, srv, agg>>

\* The response to an ended call is sent and the slot awaits the next request.
Respond(c) ==
  /\ Ended(c)
  /\ call' = [call EXCEPT ![c] = IdleCall]
  /\ UNCHANGED <<store, lastInsert, cli, srv, agg>>

(***************************************************************************)
(* The life of the process: the module's top-level statements run, then    *)
(* __main__ calls mcp_server.run inside a try whose handlers only log.     *)
(***************************************************************************)
\* register(d) while the module is imported.  A register that fails raises
\* out of the module: the interpreter prints the traceback and exits with
\* status 1.
register(d) ==
  /\ srv.phase = "import"
  /\ LET r == Register(srv.registry, d)
         op == [op |-> "register", name |-> d.name, ok |-> r.ok, descriptor |-> d]
     IN srv' = IF r.ok
               THEN [srv EXCEPT !.registry = r.registry, !.last = op]
               ELSE [Exited("import_error", 1) EXCEPT !.last = op]
  /\ UNCHANGED <<store, call, lastInsert, cli, agg>>

\* The next @mcp_server.tool of the module registers the function below it
\* under the function's name.
tool_decorator ==
  /\ Len(srv.registry) < Len(Decorated)
  /\ LET f == Decorated[Len(srv.registry) + 1] IN register(Descriptor(f, f))

\* A top-level statement raises (the log file cannot be opened, the
\* framework cannot be constructed): traceback, exit status 1.
import_fails ==
  /\ srv.phase = "import"
  /\ srv' = Exited("import_error", 1)
  /\ UNCHANGED <<store, call, lastInsert, cli, agg>>

\* The start-up is over and the server serves requests.
run_begins ==
  /\ srv.phase = "import"
  /\ srv' = [srv EXCEPT !.phase = "serving"]
  /\ UNCHANGED <<store, call, lastInsert, cli, agg>>

\* __main__: every top-level statement has run; mcp_server.run(...) is called.
main_run ==
  /\ Len(srv.registry) = Len(Decorated)
  /\ run_begins

\* When the process ends while serving, the handler calls in flight end with
\* it: what a call had written and not committed is rolled back by the store.
NoCalls == [c \in Calls |-> IdleCall]

\* The transport is closed by the peer: run returns, the finally logs, the
\* module ends.
run_returns ==
  /\ srv.phase = "serving"
  /\ srv' = Exited("close", 0)
  /\ call' = NoCalls
  /\ UNCHANGED <<store, lastInsert, cli, agg>>

\* except KeyboardInterrupt: logs; the finally logs; the module ends.
main_KeyboardInterrupt ==
  /\ srv.phase = "serving"
  /\ srv' = Exited("interrupt", 0)
  /\ call' = NoCalls
  /\ UNCHANGED <<store, lastInsert, cli, agg>>

\* except Exception: logs the error as critical; the finally logs; the
\* module ends.
main_Exception ==
  /\ srv.phase = "serving"
  /\ srv' = Exited("error", 0)
  /\ call' = NoCalls
  /\ UNCHANGED <<store, lastInsert, cli, agg>>

Next ==
  \/ tool_decorator \/ import_fails \/ main_run
  \/ run_returns \/ main_KeyboardInterrupt \/ main_Exception
  \/ \E c \in Calls :
    \/ Refuse(c) \/ Reject(c) \/ Respond(c)
    \/ list_db_tables_begin(c) \/ list_db_tables_execute(c)
    \/ get_table_schema_begin(c) \/ get_table_schema_execute(c)
    \/ query_db_table_begin(c) \/ query_db_table_execute(c)
    \/ insert_data_begin(c) \/ insert_data_execute(c) \/ insert_data_commit(c)
    \/ delete_data_begin(c) \/ delete_data_execute(c) \/ delete_data_commit(c)

Spec == Init /\ [][Next]_vars

(***************************************************************************)
(* The registry by itself: while the process starts, any descriptor may be *)
(* offered to it, in any order; names are looked up at any time.           *)
(***************************************************************************)
\* resolve(name): a look-up changes nothing but the record of the latest
\* operation.
resolve(name) ==
  /\ srv.phase \in {"import", "serving"}
  /\ LET r == Resolve(srv.registry, name)
     IN srv' = [srv EXCEPT !.last = [op |-> "resolve", name |-> name,
                                     ok |-> r.found, descriptor |-> r.descriptor]]
  /\ UNCHANGED <<store, call, lastInsert, cli, agg>>

RegistryNext ==
  \/ \E d \in Descriptors : register(d)
  \/ \E name \in RequestNames : resolve(name)
  \/ run_begins

RegistrySpec == Init /\ [][RegistryNext]_vars

(***************************************************************************)
(* main(): discover, create the agent, invoke math, invoke weather.        *)
(***************************************************************************)
\* A wait_for begins: the operation is started and the timeout armed.
BeginWait(w, rec) ==
  [rec EXCEPT !.pc = w, !.elapsed = 0, !.timer = "armed", !.op = "running",
              !.started[w] = @ + 1]

\* A timeout that leaves the awaited operation as it is.
OnTimeoutLeavesRunning(op) == op

\* asyncio.wait_for, when its timeout expires, cancels the awaited operation
\* and raises TimeoutError once the cancellation is done: an operation that
\* was still running is cancelled.
OnTimeout(op) == IF op = "running" THEN "cancelled" ELSE op

\* main() resumes from the wait w with outcome o.
Resume(w, o, rec) ==
  [rec EXCEPT !.out[w] = o, !.n[w] = @ + 1,
              !.at[w] = [op |-> cli.op, timer |-> cli.timer,
                         elapsed |-> cli.elapsed, remote |-> cli.remote[w]],
              !.left[w] = IF o = "timeout" THEN OnTimeout(cli.op) ELSE cli.op,
              !.timer = "off"]

\* A wait that hands back a result without the operation being done, and one
\* whose timeout never ends it.
MayReturnEarly == TRUE
MayTimeOutNever == FALSE

\* wait_for hands back the operation's result once the operation is done,
\* its exception once it has raised, and TimeoutError once the timeout has
\* fired.
MayReturn == cli.op = "returned"
MayRaise == cli.op = "raised"
MayTimeOut == cli.timer = "fired"

\* A main() that goes on to create the agent whatever the discovery gave.
AfterWaitGoesOn(w, o, rec) ==
  CASE w = "discover" -> [rec EXCEPT !.pc = "creating"]
    [] w = "math" -> BeginWait("weather", rec)
    [] w = "weather" -> [rec EXCEPT !.pc = "done"]

\* A main() that a failed math invocation ends.
AfterWaitMathEnds(w, o, rec) ==
  CASE w = "discover" /\ o = "result" -> [rec EXCEPT !.pc = "creating"]
    [] w = "discover" /\ o /= "result" -> [rec EXCEPT !.pc = "aborted"]
    [] w = "math" /\ o = "result" -> BeginWait("weather", rec)
    [] w = "math" /\ o /= "result" -> [rec EXCEPT !.pc = "aborted"]
    [] w = "weather" -> [rec EXCEPT !.pc = "done"]

\* What main() does after a wait: a failed discovery ends the run, an
\* invocation is followed by the next statement whatever its outcome.
AfterWait(w, o, rec) ==
  CASE w = "discover" /\ o = "result" -> [rec EXCEPT !.pc = "creating"]
    [] w = "discover" /\ o /= "result" -> [rec EXCEPT !.pc = "aborted"]
    [] w = "math" -> BeginWait("weather", rec)
    [] w = "weather" -> [rec EXCEPT !.pc = "done"]

\* client.get_tools() is awaited under the discovery timeout.
main_get_tools ==
  /\ cli.pc = "start"
  /\ cli' = [BeginWait("discover", cli) EXCEPT
               !.load = [s \in Servers |-> "pending"]]
  /\ UNCHANGED <<store, call, lastInsert, srv, agg>>

\* get_tools() loads the tools of every configured server concurrently.
\* The loading of a reachable server's tools completes; that of an
\* unreachable server fails or never completes.
LoadOk(s) ==
  /\ cli.pc = "discover" /\ cli.op = "running"
  /\ cli.load[s] = "pending" /\ s \in cli.reach
  /\ cli' = [cli EXCEPT !.load[s] = "loaded"]
  /\ UNCHANGED <<store, call, lastInsert, srv, agg>>

LoadFail(s) ==
  /\ cli.pc = "discover" /\ cli.op = "running"
  /\ cli.load[s] = "pending" /\ s \notin cli.reach
  /\ cli' = [cli EXCEPT !.load[s] = "failed"]
  /\ UNCHANGED <<store, call, lastInsert, srv, agg>>

\* get_tools() is one operation over all servers: it returns the tools of
\* all of them once every loading is done and raises once one has failed.
Gather ==
  /\ cli.pc = "discover" /\ cli.op = "running"
  /\ \/ /\ \E s \in Servers : cli.load[s] = "failed"
        /\ cli' = [cli EXCEPT !.op = "raised"]
     \/ /\ \A s \in Servers : cli.load[s] = "loaded"
        /\ cli' = [cli EXCEPT !.op = "returned"]
  /\ UNCHANGED <<store, call, lastInsert, srv, agg>>

\* agent.ainvoke(...) returns a response, raises, or does neither.
OpReturns ==
  /\ cli.pc \in {"math", "weather"} /\ cli.op = "running"
  /\ cli' = [cli EXCEPT !.op = "returned"]
  /\ UNCHANGED <<store, call, lastInsert, srv, agg>>

OpRaises ==
  /\ cli.pc \in {"math", "weather"} /\ cli.op = "running"
  /\ cli' = [cli EXCEPT !.op = "raised"]
  /\ UNCHANGED <<store, call, lastInsert, srv, agg>>

\* Modelled from the specification (5 Cancellation; the servers are not in
\* the sources): the invocation has a server start a mutating tool call.
RemoteStarts ==
  /\ cli.pc \in {"math", "weather"} /\ cli.op = "running"
  /\ cli.remote[cli.pc] = "none"
  /\ cli' = [cli EXCEPT !.remote[cli.pc] = "started"]
  /\ UNCHANGED <<store, call, lastInsert, srv, agg>>

\* Modelled from the specification (5 Cancellation): the server is a process
\* of its own; a call it has started may commit whenever the server gets to
\* it, whatever main() does in the meantime.
RemoteCommits(w) ==
  /\ cli.remote[w] = "started"
  /\ cli' = [cli EXCEPT !.remote[w] = "committed"]
  /\ UNCHANGED <<store, call, lastInsert, srv, agg>>

\* A second passes while main() waits.
Tick ==
  /\ cli.pc \in Waits /\ cli.timer = "armed"
  /\ cli.elapsed < TimeoutOf(cli.pc)
  /\ cli' = [cli EXCEPT !.elapsed = @ + 1]
  /\ UNCHANGED <<store, call, lastInsert, srv, agg>>

\* The timeout of the current wait_for expires.
TimerFires ==
  /\ cli.pc \in Waits /\ cli.timer = "armed"
  /\ cli.elapsed = TimeoutOf(cli.pc)
  /\ cli' = [cli EXCEPT !.timer = "fired"]
  /\ UNCHANGED <<store, call, lastInsert, srv, agg>>

\* main() resumes with the operation's result.
WaitResult ==
  /\ cli.pc \in Waits /\ MayReturn
  /\ cli' = AfterWait(cli.pc, "result",
              Resume(cli.pc, "result",
                [cli EXCEPT !.tools =
                   IF cli.pc = "discover"
                   THEN {s \in Servers : cli.load[s] = "loaded"} ELSE @]))
  /\ UNCHANGED <<store, call, lastInsert, srv, agg>>

\* main() resumes with TimeoutError; wait_for has cancelled the operation.
WaitTimeout ==
  /\ cli.pc \in Waits /\ MayTimeOut
  /\ cli' = AfterWait(cli.pc, "timeout",
              Resume(cli.pc, "timeout",
                [cli EXCEPT !.load =
                   [s \in Servers |->
                      IF cli.load[s] = "pending" THEN "cancelled" ELSE cli.load[s]]]))
  /\ UNCHANGED <<store, call, lastInsert, srv, agg>>

\* main() resumes with the operation's exception.
WaitRaised ==
  /\ cli.pc \in Waits /\ MayRaise
  /\ cli' = AfterWait(cli.pc, "exception",
              Resume(cli.pc, "exception",
                [cli EXCEPT !.load =
                   [s \in Servers |->
                      IF cli.load[s] = "pending" THEN "cancelled" ELSE cli.load[s]]]))
  /\ UNCHANGED <<store, call, lastInsert, srv, agg>>

\* ChatGroq(...) and create_agent(llm, tools): on success main() goes on to
\* the math invocation, on an exception it returns.
main_agent_created ==
  /\ cli.pc = "creating"
  /\ cli' = BeginWait("math", [cli EXCEPT !.agent = TRUE])
  /\ UNCHANGED <<store, call, lastInsert, srv, agg>>

main_agent_failed ==
  /\ cli.pc = "creating"
  /\ cli' = [cli EXCEPT !.pc = "aborted"]
  /\ UNCHANGED <<store, call, lastInsert, srv, agg>>

ClientInit ==
  /\ store = [t \in {} |-> {}]
  /\ call = [c \in Calls |-> IdleCall]
  /\ lastInsert = NoInsert
  /\ cli \in {ClientStart(R) : R \in SUBSET Servers}
  /\ srv = ServerStart
  /\ agg = AggregatorStart([s \in Servers |-> {}])

ClientNext ==
  \/ main_get_tools
  \/ \E s \in Servers : LoadOk(s) \/ LoadFail(s)
  \/ Gather
  \/ OpReturns \/ OpRaises
  \/ Tick \/ TimerFires
  \/ WaitResult \/ WaitTimeout \/ WaitRaised
  \/ main_agent_created \/ main_agent_failed

ClientSpec == ClientInit /\ [][ClientNext]_vars

\* main() together with the servers its invocations reach.
RemoteNext ==
  \/ ClientNext
  \/ RemoteStarts
  \/ \E w \in Invocations : RemoteCommits(w)

RemoteSpec == ClientInit /\ [][RemoteNext]_vars

\* The event loop runs what is ready: time passes, a due timeout fires and
\* main() resumes when its wait is over.  Nothing obliges an awaited
\* operation to complete.
ClientLive ==
  /\ ClientSpec
  /\ WF_vars(Tick) /\ WF_vars(TimerFires)
  /\ WF_vars(WaitResult) /\ WF_vars(WaitTimeout) /\ WF_vars(WaitRaised)
  /\ WF_vars(main_get_tools) /\ WF_vars(main_agent_created \/ main_agent_failed)

(***************************************************************************)
(* The merged catalog of the client's servers.                             *)
(***************************************************************************)
\* The tool names a server may offer.
OfferedNames == {"add", "multiply", "get_weather"}

\* A name as a look-up gives it: bare, <<name>>, or qualified by the id of
\* the owning server, <<server, name>>.
Bare(name) == <<name>>
Qualified(server, name) == <<server, name>>
LookupNames ==
  {Bare(n) : n \in OfferedNames}
    \cup {Qualified(sv, n) : sv \in Servers, n \in OfferedNames}

\* The servers that offer a name.
Owners(cat, name) == {sv \in Servers : name \in cat[sv]}

\* A merge that puts every tool in the catalog under its bare name.
MergeFlat(cat) ==
  UNION {{[qname |-> Bare(n), server |-> sv, name |-> n] : n \in cat[sv]} :
           sv \in Servers}

\* Modelled from the specification (4.4 Multi-Server Client; the merge is
\* done inside client.get_tools(), whose code is not in the sources): one
\* entry per tool of each server; a name two servers offer is disambiguated
\* by prefixing the id of the owning server, any other name is kept as it is.
Merge(cat) ==
  UNION {{[qname |-> IF Cardinality(Owners(cat, n)) > 1
                     THEN Qualified(sv, n) ELSE Bare(n),
           server |-> sv, name |-> n] : n \in cat[sv]} : sv \in Servers}

\* Modelled from the specification (4.4 Multi-Server Client): a qualified
\* name finds the tool of that server; a bare name finds the tool when
\* exactly one server offers it and fails with AmbiguousNameError when more
\* than one does.
Lookup(merged, q) ==
  LET hits == IF Len(q) = 1
              THEN {e \in merged : e.name = q[1]}
              ELSE {e \in merged : e.server = q[1] /\ e.name = q[2]}
  IN IF hits = {} THEN [name |-> q, outcome |-> "NotFoundError", server |-> ""]
     ELSE IF Cardinality(hits) > 1
          THEN [name |-> q, outcome |-> "AmbiguousNameError", server |-> ""]
          ELSE [name |-> q, outcome |-> "found",
                server |-> (CHOOSE e \in hits : TRUE).server]

\* catalog(): the catalogs of the servers are fetched and merged.
catalog ==
  /\ ~agg.fetched
  /\ agg' = [agg EXCEPT !.fetched = TRUE, !.merged = Merge(agg.catalog)]
  /\ UNCHANGED <<store, call, lastInsert, cli, srv>>

\* A tool is looked up in the merged catalog.
lookup(q) ==
  /\ agg.fetched
  /\ agg' = [agg EXCEPT !.lookup = Lookup(agg.merged, q)]
  /\ UNCHANGED <<store, call, lastInsert, cli, srv>>

CatalogInit ==
  /\ store = [t \in {} |-> {}]
  /\ call = [c \in Calls |-> IdleCall]
  /\ lastInsert = NoInsert
  /\ cli = ClientStart(Servers)
  /\ srv = ServerStart
  /\ agg \in {AggregatorStart(cat) : cat \in [Servers -> SUBSET OfferedNames]}

CatalogNext == catalog \/ \E q \in LookupNames : lookup(q)

CatalogSpec == CatalogInit /\ [][CatalogNext]_vars

(***************************************************************************)
(* Vocabulary of the properties.                                           *)
(***************************************************************************)
\* A failure value: a dict whose success entry is False.
IsFailure(r) ==
  r.shape = "dict" /\ "success" \in DOMAIN r.val /\ r.val.success = FALSE

\* The failure kind a message stands for in the design's taxonomy.
KindOf(r) ==
  IF ~IsFailure(r) THEN "none"
  ELSE IF r.val.message \in {MsgNoData, MsgEmptyCondition, MsgMissingArgument}
       THEN "InvalidArgument"
  ELSE IF r.val.message \in {MsgNotFound, MsgUnknownTool} THEN "NotFound"
  ELSE IF r.val.message = MsgMalformed THEN "ProtocolError"
  ELSE "HandlerError"

RowCounts == [t \in DOMAIN store |-> Cardinality(store[t])]

\* Slot c takes a step that begins a call of tool.
Begins(c, tool) == call[c].pc = "idle" /\ call'[c].pc /= "idle" /\ call'[c].tool = tool

\* Slot c takes a step that ends its call.
Ends(c) == call[c].pc \notin EndedPcs /\ call'[c].pc \in EndedPcs

\* Position of the first event e in a sequence of events (0 when absent).
PosIn(ev, e) ==
  IF HasIn(ev, e)
  THEN CHOOSE i \in 1..Len(ev) : ev[i] = e /\ \A j \in 1..(i - 1) : ev[j] /= e
  ELSE 0

(***************************************************************************)
(* C1.  delete_data with an empty or whitespace-only condition returns a   *)
(* failure of kind InvalidArgument without opening a store connection, and *)
(* the row count of every table is what it was before the call.            *)
(***************************************************************************)
\* Empty, or white space from end to end.
OnlyWhitespace(cond) == \A i \in 1..Len(cond) : cond[i] = "ws"

C1_BlankDeleteRefused ==
  [][\A c \in Calls :
       (Begins(c, "delete_data") /\ call'[c].invoked /\ OnlyWhitespace(call'[c].cond))
         => /\ call'[c].pc = "returned"
            /\ KindOf(call'[c].result) = "InvalidArgument"
            /\ call'[c].ev = <<>>
            /\ RowCounts' = RowCounts]_vars

\* A whitespace-only condition was refused while the table held rows.
C1_Witness ==
  \E c \in Calls :
    /\ call[c].tool = "delete_data" /\ call[c].pc = "returned"
    /\ call[c].cond /= <<>> /\ OnlyWhitespace(call[c].cond)
    /\ call[c].table \in DOMAIN store /\ store[call[c].table] /= {}

(***************************************************************************)
(* C2.  In no reachable state has a handler call ended while the           *)
(* connection it opened is still open.                                     *)
(***************************************************************************)
C2_ReleasedOnEveryExit == \A c \in Calls : Ended(c) => ~ConnOpen(c)

(***************************************************************************)
(* C3.  A mutating call that opened a connection ends with exactly one of  *)
(* commit and rollback, made before the close: commit when the call        *)
(* succeeded, rollback when it failed; and only the commit of a call       *)
(* changes the store, so a failed call leaves it as it was.                *)
(***************************************************************************)
C3_CommitXorRollback ==
  [][/\ \A c \in Calls :
          (Ends(c) /\ call'[c].tool \in MutatingTools
                   /\ HasIn(call'[c].ev, "connect"))
            => LET ev == call'[c].ev
                   failed == call'[c].pc = "raised" \/ IsFailure(call'[c].result)
               IN /\ HasIn(ev, "commit") /= HasIn(ev, "rollback")
                  /\ HasIn(ev, "close")
                  /\ HasIn(ev, "commit") => PosIn(ev, "commit") < PosIn(ev, "close")
                  /\ HasIn(ev, "rollback") => PosIn(ev, "rollback") < PosIn(ev, "close")
                  /\ HasIn(ev, "commit") <=> ~failed
                  /\ HasIn(ev, "rollback") <=> failed
                  /\ failed => store' = store
     /\ store' /= store =>
          \E c \in Calls : Ends(c) /\ HasIn(call'[c].ev, "commit")]_vars

(***************************************************************************)
(* C4.  Every wait under a timeout gives main() exactly one outcome, and   *)
(* none before the awaited operation has completed or the timeout has      *)
(* fired: a result only from an operation that returned, an exception only *)
(* from one that raised, a timeout only from a timer that fired; a wait    *)
(* main() has left has given one outcome, never none and never two.        *)
(***************************************************************************)
C4_OneOutcome ==
  \A w \in Waits :
    /\ cli.n[w] <= 1
    /\ cli.n[w] = 1 <=> cli.out[w] /= "pending"
    /\ cli.out[w] = "result" => cli.at[w].op = "returned"
    /\ cli.out[w] = "exception" => cli.at[w].op = "raised"
    /\ cli.out[w] = "timeout" => cli.at[w].timer = "fired"
    /\ cli.started[w] = 0 => cli.n[w] = 0
    /\ (cli.started[w] = 1 /\ cli.pc /= w) => cli.n[w] = 1

\* The operation had returned and the timeout had fired when main() resumed:
\* both events were there and one outcome was given.
C4_Witness ==
  \E w \in Waits :
    /\ cli.n[w] = 1
    /\ cli.at[w].op = "returned" /\ cli.at[w].timer = "fired"

(***************************************************************************)
(* C5.  main() never waits forever: every wait ends, and a wait whose      *)
(* operation has not completed ends as a timeout, after 10 seconds for the *)
(* discovery and 20 for an invocation.                                     *)
(***************************************************************************)
C5_TimeoutEndsEveryWait ==
  \A w \in Waits :
    /\ [](cli.pc = w => <>(cli.out[w] /= "pending"))
    /\ []((cli.out[w] /= "pending" /\ cli.at[w].op = "running")
            => /\ cli.out[w] = "timeout"
               /\ cli.at[w].elapsed = IF w = "discover" THEN 10 ELSE 20)

\* The math invocation never completed and was given up after 20 seconds.
C5_Witness ==
  /\ cli.out["math"] = "timeout"
  /\ cli.at["math"].op = "running"
  /\ cli.at["math"].elapsed = 20

(***************************************************************************)
(* C6.  With one of the two servers unreachable, discovery ends with the   *)
(* catalog of the reachable server and main() goes on to the next stage.   *)
(***************************************************************************)
C6_PartialDiscovery ==
  (Cardinality(cli.reach) = 1 /\ cli.out["discover"] /= "pending")
    => /\ cli.out["discover"] = "result"
       /\ cli.tools = cli.reach
       /\ cli.pc /= "aborted"

C8_NeverRaises == \A c \in Calls : call[c].pc /= "raised"

(***************************************************************************)
(* C9.  As claimed: list_db_tables called with no arguments on an empty    *)
(* store yields a success whose tables payload is the empty sequence.      *)
(***************************************************************************)
EmptyListing(r) ==
  r.shape = "dict" /\ "tables" \in DOMAIN r.val /\ r.val.success /\ r.val.tables = <<>>

C9_NoArgumentListing ==
  \A c \in Calls :
    (call[c].tool = "list_db_tables" /\ Ended(c) /\ call[c].present = {}
       /\ DOMAIN store = {})
      => EmptyListing(call[c].result)

(***************************************************************************)
(* C9, amended.  On an empty store, list_db_tables called with its         *)
(* dummy_param yields, when the connection and the statement succeed, a    *)
(* success whose tables payload is the empty sequence; called with no      *)
(* arguments it is refused for the missing parameter and the handler is    *)
(* not entered.                                                            *)
(***************************************************************************)
C9_ListingNeedsDummyParam ==
  \A c \in Calls :
    (call[c].tool = "list_db_tables" /\ Ended(c) /\ DOMAIN store = {})
      => IF call[c].present = {}
         THEN /\ call[c].pc = "rejected" /\ ~call[c].invoked
              /\ KindOf(call[c].result) = "InvalidArgument"
         ELSE call[c].ev = <<"connect", "execute", "close">>
                => EmptyListing(call[c].result)

\* The listing of an empty store was returned to a call carrying dummy_param,
\* and a call without arguments was refused.
C9_Witness ==
  \E c, d \in Calls :
    /\ call[c].tool = "list_db_tables" /\ call[c].pc = "returned"
    /\ "dummy_param" \in call[c].present
    /\ DOMAIN store = {}
    /\ call[c].ev = <<"connect", "execute", "close">>
    /\ call[d].tool = "list_db_tables" /\ call[d].pc = "rejected"
    /\ call[d].present = {}

(***************************************************************************)
(* C10.  After a successful insert_data(table, data) the table holds the   *)
(* rows it held before plus one row, whose id the store generated and no   *)
(* earlier row has; a query_db_table(table, "*", "") that runs next and    *)
(* succeeds returns that row and all the earlier rows.                     *)
(***************************************************************************)
InsertedRow(ins) == [id |-> ins.rowid, name |-> ins.name]

C10_InsertThenQuery ==
  /\ lastInsert.valid =>
       /\ lastInsert.table \in DOMAIN store
       /\ store[lastInsert.table] = lastInsert.before \cup {InsertedRow(lastInsert)}
       /\ \A b \in lastInsert.before : b.id /= lastInsert.rowid
       /\ Cardinality(store[lastInsert.table]) = Cardinality(lastInsert.before) + 1
  /\ \A q \in Calls :
       (/\ call[q].tool = "query_db_table" /\ call[q].pc = "returned"
        /\ Has(q, "execute") /\ call[q].after.valid
        /\ call[q].table = call[q].after.table
        /\ call[q].columns = "*" /\ call[q].cond = <<>>)
         => LET res == call[q].result.val
                ins == call[q].after
            IN /\ \E i \in 1..Len(res) : res[i] = InsertedRow(ins)
               /\ Len(res) = Cardinality(ins.before) + 1
               /\ \A b \in ins.before : \E i \in 1..Len(res) : res[i] = b

\* A query right after an insert into a table that already held a row.
C10_Witness ==
  \E q \in Calls :
    /\ call[q].tool = "query_db_table" /\ call[q].pc = "returned"
    /\ Has(q, "execute") /\ call[q].after.valid
    /\ call[q].table = call[q].after.table
    /\ call[q].columns = "*" /\ call[q].cond = <<>>
    /\ call[q].after.before /= {}

(***************************************************************************)
(* C11.  A query_db_table call whose statement ran returns a sequence of   *)
(* rows, empty when no row matched; one whose statement failed returns a   *)
(* failure, and a failure never has the shape of a sequence of rows.       *)
(***************************************************************************)
C11_FailureIsNoRowSequence ==
  \A q \in Calls :
    (call[q].tool = "query_db_table" /\ call[q].pc = "returned")
      => /\ Has(q, "execute") =>
              /\ call[q].result.shape = "list"
              /\ \A i \in 1..Len(call[q].result.val) :
                   call[q].result.val[i] \in Rows
                     \/ call[q].result.val[i] \in [name : Values]
         /\ Has(q, "execute_failed") =>
              /\ IsFailure(call[q].result)
              /\ call[q].result.shape /= "list"

(***************************************************************************)
(* C12.  The server process exits with status 0 when a clean interrupt     *)
(* stopped it, and with a status other than 0 when its start-up or its run *)
(* loop ended with a failure.                                              *)
(***************************************************************************)
C12_ExitStatus ==
  srv.phase = "exited" =>
    /\ srv.ended = "interrupt" => srv.status = 0
    /\ srv.ended \in {"import_error", "error"} => srv.status /= 0

(***************************************************************************)
(* C13.  As claimed: the server follows the machine Idle, AwaitingRequest, *)
(* Validating, Executing, Responding, Closed.  A handler is entered only   *)
(* out of the validation of a request that resolved to a registered tool   *)
(* and carries its parameters; a request that left AwaitingRequest is in   *)
(* Responding once, and the slot awaits the next request only from there;  *)
(* a refused request (malformed, unknown tool, missing parameter) never    *)
(* enters a handler; Closed is terminal, and a serving process enters it   *)
(* only when the transport is closed.                                      *)
(* Validating has no state of its own in the model: resolving the tool and *)
(* checking the arguments is part of the step that takes the request.      *)
(***************************************************************************)
\* The state of the machine a call slot is in.
MachineState(sv, rec) ==
  CASE sv.phase = "import" -> "Idle"
    [] sv.phase = "exited" -> "Closed"
    [] sv.phase = "serving" /\ rec.pc = "idle" -> "AwaitingRequest"
    [] sv.phase = "serving" /\ rec.pc \in {"connected", "executed"} -> "Executing"
    [] sv.phase = "serving" /\ rec.pc \in EndedPcs -> "Responding"

\* The moves of the machine between two different states.
MachineMoves ==
  {<<"Idle", "AwaitingRequest">>, <<"Idle", "Closed">>,
   <<"AwaitingRequest", "Executing">>, <<"AwaitingRequest", "Responding">>,
   <<"Executing", "Responding">>, <<"Responding", "AwaitingRequest">>,
   <<"AwaitingRequest", "Closed">>, <<"Executing", "Closed">>,
   <<"Responding", "Closed">>}

\* What a step does to the slots, whatever ends the process.
RequestCycle ==
  \A c \in Calls :
    LET from == MachineState(srv, call[c])
        to == MachineState(srv', call'[c])
    IN /\ from /= to => <<from, to>> \in MachineMoves
       \* a handler is entered only by the step that validated the request
       /\ (call'[c].invoked /\ ~call[c].invoked)
            => /\ from = "AwaitingRequest"
               /\ Registered(call'[c].tool)
               /\ ToolParams(call'[c].tool) \subseteq call'[c].present
       \* a refused request has entered no handler and touched no store
       /\ (from = "AwaitingRequest" /\ call'[c].pc = "rejected")
            => ~call'[c].invoked /\ call'[c].ev = <<>> /\ store' = store
       \* a call in Responding stays as it is until the response is sent
       /\ from = "Responding" => call'[c] = call[c] \/ call'[c] = IdleCall
       \* Closed is terminal
       /\ from = "Closed" => srv' = srv /\ call' = call /\ store' = store

C14_Registry ==
  [][LET reg == srv.registry
         reg2 == srv'.registry
         op == srv'.last
     IN /\ \A i, j \in 1..Len(reg2) : reg2[i].name = reg2[j].name => i = j
        /\ (op /= srv.last /\ op.op = "register")
             => IF op.name \in RegistryNames(reg)
                THEN ~op.ok /\ reg2 = reg
                ELSE /\ op.ok
                     /\ \E i \in 1..Len(reg2) : reg2[i] = op.descriptor
                     /\ Resolve(reg2, op.name) =
                          [found |-> TRUE, descriptor |-> op.descriptor]
                     /\ SubSeq(reg2, 1, Len(reg)) = reg
        /\ (op /= srv.last /\ op.op = "resolve")
             => /\ reg2 = reg
                /\ op.ok <=> op.name \in RegistryNames(reg)
                /\ op.ok => \E i \in 1..Len(reg) :
                              reg[i] = op.descriptor /\ reg[i].name = op.name
        /\ srv.phase /= "import" => reg2 = reg]_vars

\* A second register of a name was refused, and the registry still resolves
\* the name to the first descriptor, which differs from the refused one.
C14_Witness ==
  /\ srv.last.op = "register" /\ ~srv.last.ok
  /\ Len(srv.registry) > 1
  /\ Resolve(srv.registry, srv.last.name).found
  /\ Resolve(srv.registry, srv.last.name).descriptor /= srv.last.descriptor

(***************************************************************************)
(* C15.  The merged catalog of two servers holds one entry per tool of     *)
(* each server.  When no name is offered by both, the entries are the      *)
(* union of the two catalogs under their own names.  A name offered by     *)
(* both has two entries, each qualified by the id of its server, and a     *)
(* look-up of the bare name fails with AmbiguousNameError.  No two entries *)
(* have the same qualified name.                                           *)
(***************************************************************************)
C15_MergedCatalog ==
  agg.fetched =>
    LET cat == agg.catalog
        shared == cat["math"] \cap cat["weather"]
        entries(n) == {e \in agg.merged : e.name = n}
    IN /\ \A sv \in Servers : \A n \in cat[sv] :
            Cardinality({e \in agg.merged : e.server = sv /\ e.name = n}) = 1
       /\ \A e \in agg.merged : e.name \in cat[e.server]
       /\ shared = {} =>
            {e.qname : e \in agg.merged} =
              {<<n>> : n \in cat["math"] \cup cat["weather"]}
       /\ \A n \in shared :
            /\ Cardinality(entries(n)) = 2
            /\ \A e \in entries(n) : e.qname = <<e.server, n>>
            /\ agg.lookup.name = <<n>> => agg.lookup.outcome = "AmbiguousNameError"
       /\ \A e, f \in agg.merged : e.qname = f.qname => e = f
       /\ \A e \in agg.merged :
            agg.lookup.name = e.qname
              => agg.lookup.outcome = "found" /\ agg.lookup.server = e.server

\* Both servers offer a name, the other names differ, and the look-up of the
\* shared bare name was refused as ambiguous.
C15_Witness ==
  /\ agg.fetched
  /\ \E n \in agg.catalog["math"] \cap agg.catalog["weather"] :
       /\ agg.lookup.name = <<n>>
       /\ agg.lookup.outcome = "AmbiguousNameError"
  /\ agg.catalog["math"] /= agg.catalog["weather"]

(***************************************************************************)
(* C16.  As claimed: after an invocation timed out main() neither retries  *)
(* nor cancels: every invocation is started at most once, an operation     *)
(* that was running when the timeout ended the wait is left running, and   *)
(* the timeout changes nothing about what the server had started.          *)
(***************************************************************************)
\* The step in which main() resumes from the wait w with a timeout.
TimesOut(w) == cli.out[w] = "pending" /\ cli'.out[w] = "timeout"

C16_LeftRunning ==
  [][\A w \in Invocations :
       /\ cli'.started[w] <= 1
       /\ TimesOut(w) =>
            /\ cli'.remote = cli.remote
            /\ cli.op = "running" => cli'.left[w] = "running"]_vars

(***************************************************************************)
(* C16, amended.  After an invocation timed out main() does not retry:     *)
(* every invocation is started at most once.  The wait does cancel the     *)
(* operation it awaited: an operation that was running when the timeout    *)
(* ended the wait is cancelled, and none is left running.  The             *)
(* cancellation is local: it changes nothing about what the server had     *)
(* started, and that call commits or not as the server goes on.            *)
(***************************************************************************)
C16_CancelledNotRetried ==
  [][\A w \in Invocations :
       /\ cli'.started[w] <= 1
       /\ TimesOut(w) =>
            /\ cli'.remote = cli.remote
            /\ cli'.left[w] /= "running"
            /\ cli.op = "running" => cli'.left[w] = "cancelled"
       /\ cli.out[w] = "timeout" =>
            /\ cli'.started[w] = cli.started[w]
            /\ cli'.left[w] = cli.left[w]
            /\ cli'.remote[w] /= cli.remote[w]
                 => cli.remote[w] = "started" /\ cli'.remote[w] = "committed"]_vars

\* The math invocation timed out while its operation was running and the
\* server had started the call, not committed it; the call has committed
\* since.
C16_Witness ==
  /\ cli.out["math"] = "timeout"
  /\ cli.at["math"].op = "running" /\ cli.at["math"].remote = "started"
  /\ cli.left["math"] = "cancelled"
  /\ cli.remote["math"] = "committed"

(***************************************************************************)
(* C17.  Whatever the interleaving of the calls, every call that reaches   *)
(* the store does so on a connection of its own: the connection is new     *)
(* when the call acquires it (no call holds it), the call holds that one   *)
(* connection while it is in flight, two calls never hold the same         *)
(* connection, and a call that has ended holds none, as does a slot        *)
(* between two calls, so a later call starts without any connection of an  *)
(* earlier one.                                                            *)
(***************************************************************************)
C17_OwnFreshConnection ==
  [][\A c \in Calls :
       /\ \A d \in Calls \ {c} :
            call'[c].conn /= 0 => call'[c].conn /= call'[d].conn
       /\ (call'[c].conn /= 0 /\ call'[c].conn /= call[c].conn)
            => /\ call[c].pc = "idle" /\ call[c].conn = 0
               /\ \A d \in Calls : call[d].conn /= call'[c].conn
               /\ call'[c].ev = <<"connect">>
       /\ call[c].conn /= 0
            => call'[c].conn = call[c].conn \/ call'[c].pc \in EndedPcs \cup {"idle"}
       /\ call'[c].conn /= 0 <=> call'[c].pc \in {"connected", "executed"}
       /\ call'[c].pc \in {"connected", "executed"} => HasIn(call'[c].ev, "connect")
       /\ call'[c].pc \in EndedPcs \cup {"idle"} => call'[c].conn = 0]_vars

\* Two calls are in flight, each on an open connection, and the two
\* connections differ.
C17_Witness ==
  \E c, d \in Calls :
    /\ c /= d
    /\ ConnOpen(c) /\ ConnOpen(d)
    /\ ~Ended(c) /\ ~Ended(d)
    /\ call[c].conn /= 0 /\ call[d].conn /= 0
    /\ call[c].conn /= call[d].conn

(***************************************************************************)
(* C18.  main() goes through its stages in order: the agent is created     *)
(* only after the discovery gave a result, an invocation is started only   *)
(* after the discovery gave a result and the agent was created, and a      *)
(* timeout or an exception in the discovery, or an exception in the        *)
(* creation of the agent, ends the run: no invocation is started then or   *)
(* later.                                                                  *)
(***************************************************************************)
C18_StagesInOrder ==
  /\ [](/\ (cli.pc = "creating" \/ cli.agent) => cli.out["discover"] = "result"
        /\ \A w \in Invocations :
             cli.started[w] > 0 => cli.out["discover"] = "result" /\ cli.agent
        /\ cli.out["discover"] \in {"timeout", "exception"}
             => cli.pc = "aborted" /\ ~cli.agent
        /\ (cli.out["discover"] = "result" /\ ~cli.agent)
             => cli.pc \in {"creating", "aborted"}
        /\ cli.pc = "aborted" => \A w \in Invocations : cli.started[w] = 0)
  /\ [][cli.pc = "aborted" => cli' = cli]_vars

\* The discovery timed out and the run ended there.
C18_Witness ==
  /\ cli.out["discover"] = "timeout"
  /\ cli.pc = "aborted"
  /\ \A w \in Invocations : cli.started[w] = 0

(***************************************************************************)
(* C19.  Once the agent is created the two invocations run one after the   *)
(* other: the weather invocation is started once, by the step in which     *)
(* main() resumes from the math invocation, whatever that one gave         *)
(* (response, timeout or exception), and it starts afresh (its own         *)
(* operation, its own timeout); and main() always gets to its last         *)
(* statement: no outcome of an invocation ends the run before it.          *)
(***************************************************************************)
C19_BothInvocationsThenDone ==
  /\ [](/\ cli.started["weather"] <= 1
        /\ cli.started["weather"] = 1 <=> cli.out["math"] /= "pending"
        /\ cli.agent <=> cli.started["math"] = 1
        /\ cli.agent => cli.pc \in {"math", "weather", "done"}
        /\ cli.pc = "done" => \A w \in Invocations : cli.out[w] /= "pending")
  /\ [][cli'.started["weather"] /= cli.started["weather"]
          => /\ cli.pc = "math" /\ cli'.pc = "weather"
             /\ cli'.out["math"] \in {"result", "timeout", "exception"}
             /\ cli'.op = "running" /\ cli'.timer = "armed" /\ cli'.elapsed = 0
             /\ cli'.out["weather"] = "pending"]_vars
  /\ [](cli.agent => <>(cli.pc = "done"))

\* The math invocation raised, the weather invocation then gave its
\* response, and main() is at its last statement.
C19_Witness ==
  /\ cli.pc = "done"
  /\ cli.out["math"] = "exception"
  /\ cli.out["weather"] = "result"

====
